---- MODULE Spec2Model ----
(***************************************************************************)
(* Model of the local-persist volume driver (src/driver.go): the in-memory *)
(* name -> mountpoint map, its JSON state file, the start-up load and the  *)
(* request handlers Get, List, Create, Remove, Mount, Path and Unmount.    *)
(*                                                                         *)
(* Strings that are paths are sequences of path components, so that        *)
(* path.Join can be modelled by what it does (concatenate, then Clean);    *)
(* the empty string is the empty sequence.                                 *)
(***************************************************************************)
EXTENDS Naturals, Sequences, FiniteSets, TLC

VARIABLES
    phase,      \* "boot" before newLocalPersistDriver has run, then "serving"
    volumes,    \* driver.volumes, a Go map (possibly the nil map)
    mutex,      \* driver.mutex: the goroutine holding it, or NoThread
    file,       \* the state file <stateDir>/<name>.json
    dirs,       \* the directories that exist on the host (cleaned paths)
    daemon,     \* what the Docker daemon would answer to the container queries
    pc,         \* per goroutine: its position inside the handler it runs
    call,       \* per goroutine: the request it serves (or served last)
    resp,       \* per goroutine: the volume.Response it returned last
    err,        \* per goroutine: the local error of saveState (e / err)
    panicked,   \* the process was aborted by a panic or a fatal runtime error
    life,       \* history, per name: what Create and Remove returned for it
    writes      \* history: how the calls of saveState went so far

vars == <<phase, volumes, mutex, file, dirs, daemon, pc, call, resp, err, panicked,
          life, writes>>

----------------------------------------------------------------------------
(* Values *)

Names == {"A", "B"}
\* encoding/json writes the keys of a map in sorted order
NameOrder == <<"A", "B">>

EmptyString == <<>>
\* relative mountpoints a request may name: "p1" and "./p2"
Mountpoints == {<<"p1">>, <<".", "p2">>}
\* what a stored value may be: a state file may also hold the empty string
Values == Mountpoints \cup {EmptyString}

baseDir == <<"mnt", "base">>

SeqThreads == {"t1"}
ConcThreads == {"t1", "t2"}
NoThread == "none"
\* the names the concurrent requests are about
ConcNames == {"A"}

ErrRequired == "The mountpoint option is required"
ErrExists == "The volume already exists"
ErrMkdir == "mkdir failed"
ErrNotFound == "No volume found with the name"
ErrWrite == "write failed"
ErrRead == "open: no such file"
ErrParse == "invalid character"
ErrClient == "client error"

----------------------------------------------------------------------------
(* Go maps: a nil map reads as empty and panics on assignment *)

EmptyKV == [n \in {} |-> EmptyString]
EmptyMap == [isNil |-> FALSE, kv |-> EmptyKV]
NilMap == [isNil |-> TRUE, kv |-> EmptyKV]

\* m[k]: the zero value "" when the key is absent
MapGet(m, k) == IF k \in DOMAIN m.kv THEN m.kv[k] ELSE EmptyString

\* m[k] = v on a non-nil map
MapPut(m, k, v) ==
    [isNil |-> FALSE,
     kv |-> [n \in (DOMAIN m.kv) \cup {k} |-> IF n = k THEN v ELSE m.kv[n]]]

\* delete(m, k): a no-op on an absent key and on the nil map
\* a delete that leaves the key in the map
MapDelete_Keep(m, k) == m

MapDelete(m, k) ==
    [isNil |-> m.isNil, kv |-> [n \in (DOMAIN m.kv) \ {k} |-> m.kv[n]]]

----------------------------------------------------------------------------
(* path.Join: concatenate the elements, then path.Clean *)

CleanStep(acc, c) ==
    IF c = "." THEN acc
    ELSE IF c = ".."
         THEN (IF Len(acc) > 0 THEN SubSeq(acc, 1, Len(acc) - 1) ELSE acc)
         ELSE Append(acc, c)

RECURSIVE CleanFrom(_, _)
CleanFrom(acc, s) ==
    IF s = <<>> THEN acc ELSE CleanFrom(CleanStep(acc, Head(s)), Tail(s))

Join(a, b) == CleanFrom(<<>>, a \o b)

----------------------------------------------------------------------------
(* The state file and encoding/json *)

\* A JSON document of the shape saveData decodes: the "state" member may be
\* absent ({}), null, or an object whose members are <<key, value>> pairs.
Doc(present, null, members) ==
    [present |-> present, null |-> null, members |-> members]

NoDoc == Doc(FALSE, FALSE, <<>>)

RECURSIVE MembersFrom(_, _)
MembersFrom(kv, order) ==
    IF order = <<>> THEN <<>>
    ELSE IF Head(order) \in DOMAIN kv
         THEN <<(<<Head(order), kv[Head(order)]>>)>> \o MembersFrom(kv, Tail(order))
         ELSE MembersFrom(kv, Tail(order))

\* json.Marshal(saveData{State: volumes}): null for the nil map, else the
\* members in key order
Marshal(m) ==
    IF m.isNil THEN Doc(TRUE, TRUE, <<>>)
    ELSE Doc(TRUE, FALSE, MembersFrom(m.kv, NameOrder))

RECURSIVE PutAll(_, _)
PutAll(m, members) ==
    IF members = <<>> THEN m
    ELSE PutAll(MapPut(m, Head(members)[1], Head(members)[2]), Tail(members))

\* json.Unmarshal(fileData, &data): data.State stays nil when the member is
\* absent or null; a later duplicate member overwrites an earlier one
Unmarshal(doc) ==
    IF ~doc.present \/ doc.null THEN NilMap ELSE PutAll(EmptyMap, doc.members)

MissingFile == [kind |-> "missing", doc |-> NoDoc]
CorruptFile == [kind |-> "corrupt", doc |-> NoDoc]
JsonFile(doc) == [kind |-> "json", doc |-> doc]

KVs == UNION {[S -> Values] : S \in SUBSET Names}

\* the files a start may find
InitialFiles ==
    {MissingFile, CorruptFile, JsonFile(NoDoc)}
    \cup {JsonFile(Marshal(NilMap))}
    \cup {JsonFile(Marshal([isNil |-> FALSE, kv |-> kv])) : kv \in KVs}

----------------------------------------------------------------------------
(* The Docker daemon, as the container queries would see it *)

Daemon(clientErr, listErr, inspectErr, mounts) ==
    [clientErr |-> clientErr, listErr |-> listErr,
     inspectErr |-> inspectErr, mounts |-> mounts]

\* mounts: the <<mount.Name, mount.Source>> pairs of the containers' mounts
\* whose Driver is this driver, in the order the containers are inspected
DaemonStates ==
    { Daemon(TRUE, FALSE, FALSE, <<>>),
      Daemon(FALSE, TRUE, FALSE, <<>>),
      Daemon(FALSE, FALSE, TRUE, <<>>),
      Daemon(FALSE, FALSE, FALSE, <<>>),
      Daemon(FALSE, FALSE, FALSE, <<(<<"A", <<"p1">> >>)>>) }

----------------------------------------------------------------------------
(* Helpers of the driver *)

\* exists: a key whose value is "" does not exist
exists(m, name) == MapGet(m, name) # EmptyString

\* volume: the *volume.Volume of a name
volume(m, name) == [Name |-> name, Mountpoint |-> MapGet(m, name)]

\* a load that forgets to return data.State
findExistingVolumesFromStateFile_NoState(f) ==
    IF f.kind = "missing" THEN [err |-> ErrRead, volumes |-> EmptyMap]
    ELSE IF f.kind = "corrupt" THEN [err |-> ErrParse, volumes |-> EmptyMap]
    ELSE [err |-> "", volumes |-> EmptyMap]

\* findExistingVolumesFromStateFile: <<error, map>>
findExistingVolumesFromStateFile(f) ==
    IF f.kind = "missing" THEN [err |-> ErrRead, volumes |-> EmptyMap]
    ELSE IF f.kind = "corrupt" THEN [err |-> ErrParse, volumes |-> EmptyMap]
    ELSE [err |-> "", volumes |-> Unmarshal(f.doc)]

\* findExistingVolumesFromDockerDaemon: <<error, map>>, or a panic when a
\* container cannot be inspected.  No function of the file calls it.
findExistingVolumesFromDockerDaemon(d, f) ==
    IF d.clientErr
    THEN [panic |-> FALSE, err |-> ErrClient, volumes |-> EmptyMap]
    ELSE IF ~d.listErr /\ d.inspectErr
    THEN [panic |-> TRUE, err |-> "", volumes |-> EmptyMap]
    ELSE LET found == IF d.listErr THEN EmptyMap ELSE PutAll(EmptyMap, d.mounts)
         IN  IF d.listErr \/ Cardinality(DOMAIN found.kv) = 0
             THEN [panic |-> FALSE,
                   err |-> findExistingVolumesFromStateFile(f).err,
                   volumes |-> findExistingVolumesFromStateFile(f).volumes]
             ELSE [panic |-> FALSE, err |-> "", volumes |-> found]

\* ioutil.WriteFile(path, fileData, 0600): the file is opened with O_TRUNC and
\* then written; a failed open leaves it as it was, a failed write leaves it
\* cut short
WriteOutcomes == {"ok", "open fails", "write fails"}

\* a saveState that marshals a saveData whose State was never set to the map
saveState_NoState(f, m, outcome) ==
    IF outcome = "ok" THEN [err |-> "", file |-> JsonFile(Marshal(EmptyMap))]
    ELSE IF outcome = "open fails" THEN [err |-> ErrWrite, file |-> f]
    ELSE [err |-> ErrWrite, file |-> CorruptFile]

\* saveState: <<error, state file afterwards>>
saveState(f, m, outcome) ==
    IF outcome = "ok" THEN [err |-> "", file |-> JsonFile(Marshal(m))]
    ELSE IF outcome = "open fails" THEN [err |-> ErrWrite, file |-> f]
    ELSE [err |-> ErrWrite, file |-> CorruptFile]

----------------------------------------------------------------------------
(* Requests and responses *)

NoOptions == [k \in {} |-> EmptyString]
OptionsSet == {NoOptions} \cup {[k \in {"mountpoint"} |-> v] : v \in Values}

\* req.Options["mountpoint"]
Option(options, key) == IF key \in DOMAIN options THEN options[key] ELSE EmptyString

Request(op, name, options) == [op |-> op, Name |-> name, Options |-> options]
NoRequest == Request("none", "", NoOptions)

\* volume.Response{}
Response == [Err |-> "", Volume |-> <<>>, Volumes |-> {}, Mountpoint |-> EmptyString]

----------------------------------------------------------------------------
(* Start *)

\* the directories an earlier run created for the volumes of the state file
DirsOf(f) ==
    IF f.kind = "json"
    THEN {Join(baseDir, f.doc.members[i][2]) : i \in 1..Len(f.doc.members)}
    ELSE {}

\* The history of a name in this run of the driver, kept for the properties:
\* "never" until a Create or Remove of the name returns; a Create that returns
\* success makes it "created" ("retried" after a failed MkdirAll, "reused"
\* after a Remove); a Create that returns the MkdirAll error makes a name
\* without history "failed"; a Remove that returns makes a name that a Create
\* stored "removed".
LifeCreated(l, n) ==
    [l EXCEPT ![n] = CASE l[n] = "failed" -> "retried"
                       [] l[n] = "removed" -> "reused"
                       [] OTHER -> "created"]
LifeFailed(l, n) ==
    [l EXCEPT ![n] = IF l[n] = "never" THEN "failed" ELSE l[n]]
LifeRemoved(l, n) ==
    [l EXCEPT ![n] = IF l[n] \in {"created", "retried", "reused"}
                     THEN "removed" ELSE l[n]]

\* The history of saveState: "none" until it is called, "ok" while every call
\* wrote the file, "failed" once a call returned an error.
WritesAfter(w, e) == IF e # "" \/ w = "failed" THEN "failed" ELSE "ok"

Init ==
    /\ phase = "boot"
    /\ volumes = EmptyMap
    /\ mutex = NoThread
    /\ file \in InitialFiles
    /\ dirs = DirsOf(file)
    /\ daemon \in DaemonStates
    /\ pc = [t \in ConcThreads |-> "idle"]
    /\ call = [t \in ConcThreads |-> NoRequest]
    /\ resp = [t \in ConcThreads |-> Response]
    /\ err = [t \in ConcThreads |-> ""]
    /\ panicked = FALSE
    /\ life = [n \in Names |-> "never"]
    /\ writes = "none"

\* newLocalPersistDriver: os.Mkdir(stateDir) (its error is dropped; a state
\* directory that is missing shows as a file that cannot be read or written),
\* then the map is whatever findExistingVolumesFromStateFile returns.  The
\* daemon is not asked.
newLocalPersistDriver ==
    /\ phase = "boot"
    /\ phase' = "serving"
    /\ volumes' = findExistingVolumesFromStateFile(file).volumes
    /\ UNCHANGED <<mutex, file, dirs, daemon, pc, call, resp, err, panicked>>
    /\ UNCHANGED <<life, writes>>

----------------------------------------------------------------------------
(* The handlers.  A handler is entered by a goroutine that is idle; its     *)
(* accesses to the shared map, the mutex and the file are separate steps.  *)

Serving(t) == phase = "serving" /\ ~panicked /\ pc[t] = "idle"
At(t, where) == phase = "serving" /\ ~panicked /\ pc[t] = where

\* a handler is entered: the request is taken, nothing is returned yet
Enter(t, req, where) ==
    /\ call' = [call EXCEPT ![t] = req]
    /\ resp' = [resp EXCEPT ![t] = Response]
    /\ err' = [err EXCEPT ![t] = ""]
    /\ pc' = [pc EXCEPT ![t] = where]

\* the handler returns r
Return(t, r) ==
    /\ resp' = [resp EXCEPT ![t] = r]
    /\ pc' = [pc EXCEPT ![t] = "idle"]

Goto(t, where) ==
    /\ pc' = [pc EXCEPT ![t] = where]
    /\ UNCHANGED resp

(* Get *)
Get(t, name) ==
    /\ Serving(t)
    /\ Enter(t, Request("Get", name, NoOptions), "Get_exists")
    /\ UNCHANGED <<life, writes, phase, volumes, mutex, file, dirs, daemon, panicked>>

\* if driver.exists(req.Name)
GetExists(t) ==
    /\ At(t, "Get_exists")
    /\ IF exists(volumes, call[t].Name)
       THEN Goto(t, "Get_volume")
       ELSE Return(t, [Response EXCEPT !.Err = ErrNotFound])
    /\ UNCHANGED <<life, writes, phase, volumes, mutex, file, dirs, daemon, call, err, panicked>>

\* return volume.Response{ Volume: driver.volume(req.Name) }
GetVolume(t) ==
    /\ At(t, "Get_volume")
    /\ Return(t, [Response EXCEPT !.Volume = <<volume(volumes, call[t].Name)>>])
    /\ UNCHANGED <<life, writes, phase, volumes, mutex, file, dirs, daemon, call, err, panicked>>

(* List *)
List(t) ==
    /\ Serving(t)
    /\ Enter(t, Request("List", "", NoOptions), "List_range")
    /\ UNCHANGED <<life, writes, phase, volumes, mutex, file, dirs, daemon, panicked>>

\* for name, _ := range driver.volumes { append(volumes, driver.volume(name)) }
ListRange(t) ==
    /\ At(t, "List_range")
    /\ Return(t, [Response EXCEPT
                    !.Volumes = {volume(volumes, n) : n \in DOMAIN volumes.kv}])
    /\ UNCHANGED <<life, writes, phase, volumes, mutex, file, dirs, daemon, call, err, panicked>>

(* Mount, Path, Unmount: Mount and Unmount return driver.Path(req) *)
Path(t, name) ==
    /\ Serving(t)
    /\ Enter(t, Request("Path", name, NoOptions), "Path_read")
    /\ UNCHANGED <<life, writes, phase, volumes, mutex, file, dirs, daemon, panicked>>

Mount(t, name) ==
    /\ Serving(t)
    /\ Enter(t, Request("Mount", name, NoOptions), "Path_read")
    /\ UNCHANGED <<life, writes, phase, volumes, mutex, file, dirs, daemon, panicked>>

Unmount(t, name) ==
    /\ Serving(t)
    /\ Enter(t, Request("Unmount", name, NoOptions), "Path_read")
    /\ UNCHANGED <<life, writes, phase, volumes, mutex, file, dirs, daemon, panicked>>

\* a Path that makes sure the directory it returns exists
PathRead_Mkdir(t) ==
    /\ At(t, "Path_read")
    /\ Return(t, [Response EXCEPT
                    !.Mountpoint = Join(baseDir, MapGet(volumes, call[t].Name))])
    /\ dirs' = dirs \cup {Join(baseDir, MapGet(volumes, call[t].Name))}
    /\ UNCHANGED <<life, writes, phase, volumes, mutex, file, daemon, call, err, panicked>>

\* a Path that returns the stored mountpoint without the base directory
PathRead_Relative(t) ==
    /\ At(t, "Path_read")
    /\ Return(t, [Response EXCEPT !.Mountpoint = MapGet(volumes, call[t].Name)])
    /\ UNCHANGED <<life, writes, phase, volumes, mutex, file, dirs, daemon, call, err, panicked>>

\* Mountpoint: path.Join(driver.baseDir, driver.volumes[req.Name])
PathRead(t) ==
    /\ At(t, "Path_read")
    /\ Return(t, [Response EXCEPT
                    !.Mountpoint = Join(baseDir, MapGet(volumes, call[t].Name))])
    /\ UNCHANGED <<life, writes, phase, volumes, mutex, file, dirs, daemon, call, err, panicked>>

\* a Create that only checks that the option is present
Create_PresentOnly(t, name, options) ==
    /\ Serving(t)
    /\ call' = [call EXCEPT ![t] = Request("Create", name, options)]
    /\ err' = [err EXCEPT ![t] = ""]
    /\ IF "mountpoint" \notin DOMAIN options
       THEN Return(t, [Response EXCEPT !.Err = ErrRequired])
       ELSE /\ resp' = [resp EXCEPT ![t] = Response]
            /\ pc' = [pc EXCEPT ![t] = "Create_Lock"]
    /\ UNCHANGED <<life, writes, phase, volumes, mutex, file, dirs, daemon, panicked>>

(* Create *)
\* the mountpoint option is checked before the mutex is taken
Create(t, name, options) ==
    /\ Serving(t)
    /\ call' = [call EXCEPT ![t] = Request("Create", name, options)]
    /\ err' = [err EXCEPT ![t] = ""]
    /\ IF Option(options, "mountpoint") = EmptyString
       THEN Return(t, [Response EXCEPT !.Err = ErrRequired])
       ELSE /\ resp' = [resp EXCEPT ![t] = Response]
            /\ pc' = [pc EXCEPT ![t] = "Create_Lock"]
    /\ UNCHANGED <<life, writes, phase, volumes, mutex, file, dirs, daemon, panicked>>

\* a Create that goes on without waiting for the mutex
CreateLock_NoWait(t) ==
    /\ At(t, "Create_Lock")
    /\ mutex' = t
    /\ Goto(t, "Create_exists")
    /\ UNCHANGED <<life, writes, phase, volumes, file, dirs, daemon, call, err, panicked>>

\* driver.mutex.Lock(); defer driver.mutex.Unlock()
CreateLock(t) ==
    /\ At(t, "Create_Lock")
    /\ mutex = NoThread
    /\ mutex' = t
    /\ Goto(t, "Create_exists")
    /\ UNCHANGED <<life, writes, phase, volumes, file, dirs, daemon, call, err, panicked>>

\* a Create without the existence check
CreateExists_Overwrite(t) ==
    /\ At(t, "Create_exists")
    /\ Goto(t, "Create_MkdirAll")
    /\ UNCHANGED <<life, writes, phase, volumes, mutex, file, dirs, daemon, call, err, panicked>>

\* if driver.exists(req.Name) { return already exists }
CreateExists(t) ==
    /\ At(t, "Create_exists")
    /\ IF exists(volumes, call[t].Name)
       THEN /\ Return(t, [Response EXCEPT !.Err = ErrExists])
            /\ mutex' = NoThread
       ELSE /\ Goto(t, "Create_MkdirAll")
            /\ UNCHANGED mutex
    /\ UNCHANGED <<life, writes, phase, volumes, file, dirs, daemon, call, err, panicked>>

\* a Create that only logs the error of os.MkdirAll and returns success
CreateMkdirAll_Swallow(t) ==
    /\ At(t, "Create_MkdirAll")
    /\ \E ok \in BOOLEAN :
         IF ok
         THEN /\ dirs' = dirs \cup
                    {Join(baseDir, Option(call[t].Options, "mountpoint"))}
              /\ Goto(t, "Create_assign")
              /\ UNCHANGED <<mutex, life>>
         ELSE /\ Return(t, Response)
              /\ mutex' = NoThread
              /\ life' = LifeFailed(life, call[t].Name)
              /\ UNCHANGED dirs
    /\ UNCHANGED <<writes, phase, volumes, file, daemon, call, err, panicked>>

\* a Create that drops the error of os.MkdirAll and goes on
CreateMkdirAll_Ignore(t) ==
    /\ At(t, "Create_MkdirAll")
    /\ \E ok \in BOOLEAN :
         dirs' = IF ok
                 THEN dirs \cup {Join(baseDir, Option(call[t].Options, "mountpoint"))}
                 ELSE dirs
    /\ Goto(t, "Create_assign")
    /\ UNCHANGED <<life, writes, phase, volumes, mutex, file, daemon, call, err, panicked>>

\* err := os.MkdirAll(realMountpoint, 0755); if err != nil { return err }
CreateMkdirAll(t) ==
    /\ At(t, "Create_MkdirAll")
    /\ \E ok \in BOOLEAN :
         IF ok
         THEN /\ dirs' = dirs \cup
                    {Join(baseDir, Option(call[t].Options, "mountpoint"))}
              /\ Goto(t, "Create_assign")
              /\ UNCHANGED <<mutex, life>>
         ELSE /\ Return(t, [Response EXCEPT !.Err = ErrMkdir])
              /\ mutex' = NoThread
              /\ life' = LifeFailed(life, call[t].Name)
              /\ UNCHANGED dirs
    /\ UNCHANGED <<writes, phase, volumes, file, daemon, call, err, panicked>>

\* a Create that stores realMountpoint instead of mountpoint
CreateAssign_Real(t) ==
    /\ At(t, "Create_assign")
    /\ IF volumes.isNil
       THEN /\ panicked' = TRUE
            /\ mutex' = NoThread
            /\ Goto(t, "panic")
            /\ UNCHANGED volumes
       ELSE /\ volumes' = MapPut(volumes, call[t].Name,
                    Join(baseDir, Option(call[t].Options, "mountpoint")))
            /\ Goto(t, "Create_saveState")
            /\ UNCHANGED <<mutex, panicked>>
    /\ UNCHANGED <<life, writes, phase, file, dirs, daemon, call, err>>

\* driver.volumes[req.Name] = mountpoint: an assignment to an entry of the
\* nil map panics (the deferred Unlock runs, nothing recovers)
CreateAssign(t) ==
    /\ At(t, "Create_assign")
    /\ IF volumes.isNil
       THEN /\ panicked' = TRUE
            /\ mutex' = NoThread
            /\ Goto(t, "panic")
            /\ UNCHANGED volumes
       ELSE /\ volumes' = MapPut(volumes, call[t].Name,
                                 Option(call[t].Options, "mountpoint"))
            /\ Goto(t, "Create_saveState")
            /\ UNCHANGED <<mutex, panicked>>
    /\ UNCHANGED <<life, writes, phase, file, dirs, daemon, call, err>>

\* a Create that returns the error of saveState to the caller
CreateSaveState_Surface(t) ==
    /\ At(t, "Create_saveState")
    /\ \E outcome \in WriteOutcomes :
         /\ file' = saveState(file, volumes, outcome).file
         /\ err' = [err EXCEPT ![t] = saveState(file, volumes, outcome).err]
         /\ writes' = WritesAfter(writes, saveState(file, volumes, outcome).err)
         /\ Return(t, [Response EXCEPT !.Err = saveState(file, volumes, outcome).err])
    /\ mutex' = NoThread
    /\ life' = LifeCreated(life, call[t].Name)
    /\ UNCHANGED <<phase, volumes, dirs, daemon, call, panicked>>

\* a Create that returns without saving the state
CreateSaveState_Skip(t) ==
    /\ At(t, "Create_saveState")
    /\ Return(t, Response)
    /\ mutex' = NoThread
    /\ life' = LifeCreated(life, call[t].Name)
    /\ UNCHANGED <<writes, phase, volumes, file, dirs, daemon, call, err, panicked>>

\* e := driver.saveState(driver.volumes); the error is printed only
CreateSaveState(t) ==
    /\ At(t, "Create_saveState")
    /\ \E outcome \in WriteOutcomes :
         /\ file' = saveState(file, volumes, outcome).file
         /\ err' = [err EXCEPT ![t] = saveState(file, volumes, outcome).err]
         /\ writes' = WritesAfter(writes, saveState(file, volumes, outcome).err)
    /\ Return(t, Response)
    /\ mutex' = NoThread
    /\ life' = LifeCreated(life, call[t].Name)
    /\ UNCHANGED <<phase, volumes, dirs, daemon, call, panicked>>

(* Remove *)
Remove(t, name) ==
    /\ Serving(t)
    /\ Enter(t, Request("Remove", name, NoOptions), "Remove_Lock")
    /\ UNCHANGED <<life, writes, phase, volumes, mutex, file, dirs, daemon, panicked>>

RemoveLock(t) ==
    /\ At(t, "Remove_Lock")
    /\ mutex = NoThread
    /\ mutex' = t
    /\ Goto(t, "Remove_delete")
    /\ UNCHANGED <<life, writes, phase, volumes, file, dirs, daemon, call, err, panicked>>

\* a Remove that gives the mutex back before it saves the state
RemoveDelete_Unlock(t) ==
    /\ At(t, "Remove_delete")
    /\ volumes' = MapDelete(volumes, call[t].Name)
    /\ mutex' = NoThread
    /\ Goto(t, "Remove_saveState")
    /\ UNCHANGED <<life, writes, phase, file, dirs, daemon, call, err, panicked>>

\* a Remove that reports an unknown name as an error
RemoveDelete_Strict(t) ==
    /\ At(t, "Remove_delete")
    /\ IF call[t].Name \in DOMAIN volumes.kv
       THEN /\ volumes' = MapDelete(volumes, call[t].Name)
            /\ Goto(t, "Remove_saveState")
            /\ UNCHANGED mutex
       ELSE /\ Return(t, [Response EXCEPT !.Err = ErrNotFound])
            /\ mutex' = NoThread
            /\ UNCHANGED volumes
    /\ UNCHANGED <<life, writes, phase, file, dirs, daemon, call, err, panicked>>

\* delete(driver.volumes, req.Name)
RemoveDelete(t) ==
    /\ At(t, "Remove_delete")
    /\ volumes' = MapDelete(volumes, call[t].Name)
    /\ Goto(t, "Remove_saveState")
    /\ UNCHANGED <<life, writes, phase, mutex, file, dirs, daemon, call, err, panicked>>

\* err := driver.saveState(driver.volumes); the error is printed only
RemoveSaveState(t) ==
    /\ At(t, "Remove_saveState")
    /\ \E outcome \in WriteOutcomes :
         /\ file' = saveState(file, volumes, outcome).file
         /\ err' = [err EXCEPT ![t] = saveState(file, volumes, outcome).err]
         /\ writes' = WritesAfter(writes, saveState(file, volumes, outcome).err)
    /\ Return(t, Response)
    /\ mutex' = NoThread
    /\ life' = LifeRemoved(life, call[t].Name)
    /\ UNCHANGED <<phase, volumes, dirs, daemon, call, panicked>>

(* Unsynchronised access *)
ReadPcs == {"Get_exists", "Get_volume", "List_range", "Path_read"}
WritePcs == {"Create_assign", "Remove_delete"}

\* A read of the map by one goroutine while another is writing it is a data
\* race: the read may see the map before or after the write (the read steps
\* above), or the runtime stops the process with "fatal error: concurrent map
\* read and map write".  Writes to the nil map do not touch any map.
FatalRace(t) ==
    /\ phase = "serving" /\ ~panicked
    /\ pc[t] \in ReadPcs
    /\ ~volumes.isNil
    /\ \E u \in ConcThreads \ {t} : pc[u] \in WritePcs
    /\ panicked' = TRUE
    /\ pc' = [pc EXCEPT ![t] = "fatal"]
    /\ UNCHANGED <<life, writes, phase, volumes, mutex, file, dirs, daemon, call, resp, err>>

----------------------------------------------------------------------------
(* Specifications *)

Handler(t, names) ==
    \/ \E name \in names : Get(t, name)
    \/ GetExists(t)
    \/ GetVolume(t)
    \/ List(t)
    \/ ListRange(t)
    \/ \E name \in names : Path(t, name)
    \/ \E name \in names : Mount(t, name)
    \/ \E name \in names : Unmount(t, name)
    \/ PathRead(t)
    \/ \E name \in names, options \in OptionsSet : Create(t, name, options)
    \/ CreateLock(t)
    \/ CreateExists(t)
    \/ CreateMkdirAll(t)
    \/ CreateAssign(t)
    \/ CreateSaveState(t)
    \/ \E name \in names : Remove(t, name)
    \/ RemoveLock(t)
    \/ RemoveDelete(t)
    \/ RemoveSaveState(t)

\* requests handled one at a time
Next ==
    \/ newLocalPersistDriver
    \/ \E t \in SeqThreads : Handler(t, Names)

Spec == Init /\ [][Next]_vars

\* requests handled by concurrent goroutines
NextConc ==
    \/ newLocalPersistDriver
    \/ \E t \in ConcThreads : Handler(t, ConcNames)
    \/ \E t \in ConcThreads : FatalRace(t)

\* the concurrent runs start from a first run (no file), a file without a
\* "state" member, or a file with one volume
InitConc ==
    /\ Init
    /\ file \in {MissingFile, JsonFile(NoDoc),
                 JsonFile(Marshal(MapPut(EmptyMap, "A", <<"p1">>)))}
    /\ daemon = Daemon(FALSE, FALSE, FALSE, <<>>)

SpecConc == InitConc /\ [][NextConc]_vars

\* Concurrent Create requests for one name that is not registered: every
\* goroutine sends one Create of A with a mountpoint that is not empty.
RaceName == "A"

InitRace ==
    /\ Init
    /\ file \in {MissingFile, JsonFile(NoDoc),
                 JsonFile(Marshal(MapPut(EmptyMap, "B", <<"p1">>)))}
    /\ daemon = Daemon(FALSE, FALSE, FALSE, <<>>)

NextRace ==
    \/ newLocalPersistDriver
    \/ \E t \in ConcThreads :
         \/ /\ call[t].op = "none"
            /\ \E m \in Mountpoints :
                 Create(t, RaceName, [k \in {"mountpoint"} |-> m])
         \/ CreateLock(t)
         \/ CreateExists(t)
         \/ CreateMkdirAll(t)
         \/ CreateAssign(t)
         \/ CreateSaveState(t)

SpecRace == InitRace /\ [][NextRace]_vars

\* The process ends while no handler is running (or after a panic or a fatal
\* error) and is started again with the same name and state directory:
\* newLocalPersistDriver builds the map of the new process from the state
\* file the old one left.  The file, the directories and the daemon stay.
Restart ==
    /\ phase = "serving"
    /\ \A t \in ConcThreads : pc[t] \in {"idle", "panic", "fatal"}
    /\ \E t \in ConcThreads : call[t].op # "none"
    /\ volumes' = findExistingVolumesFromStateFile(file).volumes
    /\ mutex' = NoThread
    /\ pc' = [t \in ConcThreads |-> "idle"]
    /\ call' = [t \in ConcThreads |-> NoRequest]
    /\ resp' = [t \in ConcThreads |-> Response]
    /\ err' = [t \in ConcThreads |-> ""]
    /\ panicked' = FALSE
    /\ life' = [n \in Names |-> "never"]
    /\ writes' = "none"
    /\ UNCHANGED <<phase, file, dirs, daemon>>

NextRestart ==
    \/ Next
    \/ Restart

\* the runs with restarts start from a first run (no file), a file that is
\* not JSON, a file without a "state" member, or a file with one volume,
\* while the daemon cannot be reached or has no container
InitRestart ==
    /\ Init
    /\ file \in {MissingFile, CorruptFile, JsonFile(NoDoc),
                 JsonFile(Marshal(MapPut(EmptyMap, "B", <<".", "p2">>)))}
    /\ daemon \in {Daemon(TRUE, FALSE, FALSE, <<>>),
                   Daemon(FALSE, FALSE, FALSE, <<>>)}

SpecRestart == InitRestart /\ [][NextRestart]_vars

----------------------------------------------------------------------------
(* Vocabulary of the properties *)

\* goroutine t has returned from a call of op, and has not been called since
Done(t, op) == pc[t] = "idle" /\ call[t].op = op

\* the step enters goroutine t into a handler of op
Entered(t, op) ==
    /\ pc[t] = "idle"
    /\ call'[t].op = op
    /\ <<call[t], resp[t], err[t], pc[t]>> # <<call'[t], resp'[t], err'[t], pc'[t]>>

\* the step is a step of goroutine t
StepOf(t) ==
    <<call[t], resp[t], err[t], pc[t]>> # <<call'[t], resp'[t], err'[t], pc'[t]>>

Registered(n) == n \in DOMAIN volumes.kv /\ volumes.kv[n] # EmptyString
Stored(n) == IF n \in DOMAIN volumes.kv THEN volumes.kv[n] ELSE EmptyString
Requested(t) == Option(call[t].Options, "mountpoint")
Found(n, m) == [Response EXCEPT !.Volume = <<[Name |-> n, Mountpoint |-> m]>>]
RemoveRunning(n) ==
    \E t \in ConcThreads :
        call[t].op = "Remove" /\ call[t].Name = n /\ pc[t] # "idle"

\* the driver was constructed and no request has been taken yet
JustConstructed ==
    phase = "serving" /\ \A t \in ConcThreads : call[t].op = "none"

----------------------------------------------------------------------------
(* C1 *)

C1_CreateStores ==
    \A t \in SeqThreads :
        (Done(t, "Create") /\ resp[t].Err = "")
            => Stored(call[t].Name) = Requested(t)

C1_GetReturnsStored ==
    \A t \in SeqThreads :
        (Done(t, "Get") /\ Registered(call[t].Name))
            => resp[t] = Found(call[t].Name, Stored(call[t].Name))

C1_StaysStored ==
    \A n \in Names :
        (Registered(n) /\ ~RemoveRunning(n)) => Stored(n)' = Stored(n)

\* C1: when Create(name, mountpoint m) has returned success the map holds
\* name -> m, a Get of a name the map holds returns the volume with that name
\* and the stored mountpoint, and no step other than a step of Remove(name)
\* changes what the map holds for a registered name.
C1_CreateThenLookup ==
    [](C1_CreateStores /\ C1_GetReturnsStored) /\ [][C1_StaysStored]_vars

\* a Get has returned A with the mountpoint ./p2 in a run that started
\* without a state file: the volume was created by Create
C1_Witness ==
    /\ Done("t1", "Get")
    /\ resp["t1"] = Found("A", <<".", "p2">>)
    /\ file = MissingFile

----------------------------------------------------------------------------
(* C2 *)

\* the positions of a Create up to and including its existence check
C2_BeforeCheck(t) ==
    \/ Entered(t, "Create") /\ Registered(call'[t].Name)
    \/ /\ pc[t] \in {"Create_Lock", "Create_exists"}
       /\ StepOf(t)
       /\ Registered(call[t].Name)

C2_NoMutation(t) ==
    /\ UNCHANGED <<volumes, file, dirs>>
    /\ pc'[t] \in {"idle", "Create_Lock", "Create_exists"}

\* C2 as claimed: a Create of a registered name changes nothing and, when it
\* returns, returns AlreadyExists whatever mountpoint it was given.
C2_AlwaysAlreadyExists ==
    [][\A t \in SeqThreads :
         C2_BeforeCheck(t) =>
            /\ C2_NoMutation(t)
            /\ pc'[t] = "idle" => resp'[t].Err = ErrExists]_vars

\* C2 amended: a Create of a registered name changes nothing and, when it
\* returns, returns AlreadyExists if it was given a non-empty mountpoint and
\* MissingRequiredOption if it was given none or the empty one.
C2_AlreadyExistsOrRequired ==
    [][\A t \in SeqThreads :
         C2_BeforeCheck(t) =>
            /\ C2_NoMutation(t)
            /\ pc'[t] = "idle" =>
                 resp'[t].Err = IF Requested(t)' = EmptyString
                                THEN ErrRequired ELSE ErrExists]_vars

\* a Create of A with another mountpoint than the stored one was refused
C2_Witness ==
    /\ Done("t1", "Create")
    /\ resp["t1"].Err = ErrExists
    /\ Registered("A")
    /\ call["t1"].Name = "A"
    /\ Requested("t1") # Stored("A")
    /\ file = MissingFile

----------------------------------------------------------------------------
(* C3 *)

\* C3: a Create without a mountpoint, or with the empty one, returns
\* MissingRequiredOption at once and leaves the map, the state file and the
\* directories as they were.
C3_MissingOption ==
    [][\A t \in SeqThreads :
         (Entered(t, "Create") /\ Requested(t)' = EmptyString) =>
            /\ pc'[t] = "idle"
            /\ resp'[t].Err = ErrRequired
            /\ UNCHANGED <<volumes, file, dirs>>]_vars

\* Create("B", {}) was refused and B is still not found
C3_Witness ==
    /\ Done("t1", "Create")
    /\ call["t1"].Name = "B"
    /\ call["t1"].Options = NoOptions
    /\ resp["t1"].Err = ErrRequired
    /\ ~Registered("B")

----------------------------------------------------------------------------
(* C4 *)

C4_RemoveSucceeds ==
    \A t \in SeqThreads :
        Done(t, "Remove") =>
            resp[t] = Response /\ call[t].Name \notin DOMAIN volumes.kv

C4_AbsentUnchanged ==
    \A t \in SeqThreads :
        (call[t].op = "Remove" /\ pc[t] # "idle" /\ StepOf(t)
            /\ call[t].Name \notin DOMAIN volumes.kv)
        => volumes' = volumes

\* C4: a Remove that has returned has returned success and its name is not in
\* the map; a Remove of a name that is not in the map leaves the map as it
\* is.  A second Remove(name) therefore returns what the first returned and
\* leaves the map the first left.
C4_RemoveIdempotent ==
    []C4_RemoveSucceeds /\ [][C4_AbsentUnchanged]_vars

\* Remove("B") has returned on a map that never held B
C4_Witness ==
    /\ Done("t1", "Remove")
    /\ call["t1"].Name = "B"
    /\ resp["t1"] = Response
    /\ file = MissingFile
    /\ "A" \in DOMAIN volumes.kv

----------------------------------------------------------------------------
(* C5 *)

\* C5: Mount, Path and Unmount return no error; the path is
\* join(baseDir, stored mountpoint) for a name in the map and baseDir itself
\* for any other name.
C5_Resolve ==
    \A t \in SeqThreads :
        (Done(t, "Mount") \/ Done(t, "Path") \/ Done(t, "Unmount")) =>
            /\ resp[t].Err = ""
            /\ resp[t].Mountpoint =
                 IF call[t].Name \in DOMAIN volumes.kv
                 THEN Join(baseDir, volumes.kv[call[t].Name])
                 ELSE baseDir

\* Path of the registered A -> ./p2 returned /mnt/base/p2
C5_Witness ==
    /\ Done("t1", "Path")
    /\ call["t1"].Name = "A"
    /\ Stored("A") = <<".", "p2">>
    /\ resp["t1"].Mountpoint = <<"mnt", "base", "p2">>

\* Unmount of the unknown B returned baseDir
C5_WitnessUnknown ==
    /\ Done("t1", "Unmount")
    /\ call["t1"].Name = "B"
    /\ "B" \notin DOMAIN volumes.kv
    /\ resp["t1"].Mountpoint = baseDir

----------------------------------------------------------------------------
(* C6 *)

\* C6: under concurrent requests, no step of Get, List or Path, Mount and
\* Unmount that reads the map is taken while another goroutine holds the
\* mutex (is between the Lock and the return of a Create or a Remove).
C6_NoReadInsideCriticalSection ==
    [][\A t \in ConcThreads :
         (pc[t] \in ReadPcs /\ StepOf(t)) => mutex \in {NoThread, t}]_vars

----------------------------------------------------------------------------
(* C7, C8 *)

\* the live query succeeds at every step
LiveOk == ~daemon.clientErr /\ ~daemon.listErr /\ ~daemon.inspectErr
\* the name -> source pairs the live query observes
LiveSet == PutAll(EmptyMap, daemon.mounts).kv

\* C7: when the live query succeeds with a non-empty set, the map the driver
\* starts to serve with is that set.
C7_LivePrecedence ==
    (JustConstructed /\ LiveOk /\ LiveSet # EmptyKV) => volumes.kv = LiveSet

\* C8: when the live query fails or yields the empty set, the map the driver
\* starts to serve with is the content of the state file if the file loads,
\* and empty if it does not.
C8_Fallback ==
    (JustConstructed /\ (~LiveOk \/ LiveSet = EmptyKV)) =>
        volumes.kv = IF file.kind = "json" THEN Unmarshal(file.doc).kv
                     ELSE EmptyKV

\* the client cannot be created, the state file holds B -> ./p2, and so does
\* the map of the constructed driver
C8_Witness ==
    /\ JustConstructed
    /\ daemon.clientErr
    /\ file = JsonFile(Marshal(MapPut(EmptyMap, "B", <<".", "p2">>)))
    /\ volumes.kv = MapPut(EmptyMap, "B", <<".", "p2">>).kv

----------------------------------------------------------------------------
(* C9 *)

\* C9: the process is never aborted by a panic.
C9_NeverPanics == ~panicked

----------------------------------------------------------------------------
(* C10 *)

\* C10: a Create or Remove whose state file write failed has returned
\* success, and the map holds the created name with the requested mountpoint,
\* or no longer holds the removed name.
C10_WriteFailureIsSilent ==
    \A t \in SeqThreads :
        (pc[t] = "idle" /\ err[t] # "") =>
            /\ call[t].op \in {"Create", "Remove"}
            /\ resp[t] = Response
            /\ call[t].op = "Create" =>
                 (Registered(call[t].Name) /\ Stored(call[t].Name) = Requested(t))
            /\ call[t].op = "Remove" => call[t].Name \notin DOMAIN volumes.kv

\* Create of A returned success although the write failed: the map holds A,
\* there is still no state file
C10_Witness ==
    /\ Done("t1", "Create")
    /\ err["t1"] = ErrWrite
    /\ resp["t1"] = Response
    /\ Registered("A")
    /\ file = MissingFile

\* Remove of A returned success although the write failed: the map no longer
\* holds A, the state file still does
C10_WitnessRemove ==
    /\ Done("t1", "Remove")
    /\ err["t1"] = ErrWrite
    /\ call["t1"].Name = "A"
    /\ "A" \notin DOMAIN volumes.kv
    /\ file.kind = "json"
    /\ "A" \in DOMAIN Unmarshal(file.doc).kv

----------------------------------------------------------------------------
(* C11 *)

\* C11: after a Create or Remove whose saveState succeeded, loading the state
\* file gives no error and a map equal to the map that was saved.
C11_RoundTrip ==
    \A t \in SeqThreads :
        (pc[t] = "idle" /\ call[t].op \in {"Create", "Remove"}
            /\ resp[t].Err = "" /\ err[t] = "")
        => findExistingVolumesFromStateFile(file) = [err |-> "", volumes |-> volumes]

\* the empty map was saved by a Remove and loads as the empty map
C11_Witness ==
    /\ Done("t1", "Remove")
    /\ err["t1"] = ""
    /\ volumes = EmptyMap
    /\ file = JsonFile(Doc(TRUE, FALSE, <<>>))
    /\ findExistingVolumesFromStateFile(file).volumes = EmptyMap

\* a map of two volumes was saved by a Create and loads as the same map
C11_WitnessTwo ==
    /\ Done("t1", "Create")
    /\ resp["t1"].Err = ""
    /\ err["t1"] = ""
    /\ DOMAIN volumes.kv = {"A", "B"}
    /\ findExistingVolumesFromStateFile(file).volumes = volumes

----------------------------------------------------------------------------
(* C12 *)

\* the step returns from a Create, with a non-empty mountpoint, of a name
\* that a Remove freed
CreateAfterRemove(t) ==
    /\ StepOf(t)
    /\ pc'[t] = "idle"
    /\ call'[t].op = "Create"
    /\ Option(call'[t].Options, "mountpoint") # EmptyString
    /\ life[call'[t].Name] = "removed"

\* C12 as stated: the Create of a removed name, with a non-empty mountpoint,
\* succeeds.
C12_ReuseSucceeds ==
    [][\A t \in SeqThreads : CreateAfterRemove(t) => resp'[t].Err = ""]_vars

C12_NotFound ==
    \A t \in SeqThreads :
        (pc[t] = "idle" /\ call[t].Name \in Names
            /\ life[call[t].Name] = "removed")
        => /\ call[t].Name \notin DOMAIN volumes.kv
           /\ Done(t, "Get") => resp[t] = [Response EXCEPT !.Err = ErrNotFound]

C12_Reuse ==
    \A t \in SeqThreads :
        CreateAfterRemove(t)
        => /\ resp'[t].Err \in {"", ErrMkdir}
           /\ resp'[t].Err = ""
                => /\ life'[call'[t].Name] = "reused"
                   /\ volumes'.kv[call'[t].Name]
                        = Option(call'[t].Options, "mountpoint")

\* C12: once a Create of a name succeeded and a Remove of it returned, the
\* name is not in the map and a Get of it answers not-found; a later Create
\* of it with a non-empty mountpoint is never refused as existing: it fails
\* only with the error of MkdirAll, and when it succeeds the map holds the
\* new mountpoint.
C12_RemovedIsFree ==
    []C12_NotFound /\ [][C12_Reuse]_vars

\* A was created, removed and created again, now with ./p2
C12_Witness ==
    /\ Done("t1", "Create")
    /\ call["t1"].Name = "A"
    /\ life["A"] = "reused"
    /\ resp["t1"].Err = ""
    /\ Stored("A") = <<".", "p2">>

\* a Get of the removed A has answered not-found
C12_WitnessGet ==
    /\ Done("t1", "Get")
    /\ call["t1"].Name = "A"
    /\ life["A"] = "removed"
    /\ resp["t1"].Err = ErrNotFound

----------------------------------------------------------------------------
(* C13 *)

\* C13: a state file that is absent or loads as a mapping is, after any step,
\* still absent or loadable as a mapping.
C13_StaysLoadable ==
    [][file.kind # "corrupt" => file'.kind # "corrupt"]_vars

----------------------------------------------------------------------------
(* C14 *)

\* the goroutines whose Create has returned, and those it returned success to
Returned == {t \in ConcThreads : Done(t, "Create")}
Winners == {t \in Returned : resp[t].Err = ""}

\* C14: of the concurrent Creates of one unregistered name at most one returns
\* success, the map then holds the mountpoint of that one, and every other
\* returns the already-exists error (or the error of MkdirAll); when all have
\* returned and MkdirAll failed for none, exactly one has returned success.
C14_OneWinner ==
    /\ Cardinality(Winners) <= 1
    /\ \A t \in Returned : resp[t].Err \in {"", ErrExists, ErrMkdir}
    /\ \A t \in Winners : Stored(RaceName) = Requested(t)
    /\ (Returned = ConcThreads /\ \A t \in Returned : resp[t].Err # ErrMkdir)
       => /\ Cardinality(Winners) = 1
          /\ \A t \in Returned \ Winners : resp[t].Err = ErrExists

\* both Creates have returned: t2, which asked for ./p2, won, and t1, which
\* asked for p1, was told that the volume exists
C14_Witness ==
    /\ Returned = ConcThreads
    /\ Winners = {"t2"}
    /\ resp["t1"].Err = ErrExists
    /\ Requested("t1") = <<"p1">>
    /\ Stored(RaceName) = <<".", "p2">>

----------------------------------------------------------------------------
(* C15 *)

\* C15: when the mutex is free, saveState has been called and every call of
\* it wrote the file, the file holds the map.
C15_FileIsMap ==
    (writes = "ok" /\ mutex = NoThread) => file = JsonFile(Marshal(volumes))

\* a Create and a Remove of two goroutines have both returned, the Create
\* last, and a third call is waiting for the mutex
C15_Witness ==
    /\ Done("t1", "Create")
    /\ pc["t2"] = "Remove_Lock"
    /\ life["A"] = "reused"
    /\ writes = "ok"
    /\ mutex = NoThread
    /\ Registered("A")

----------------------------------------------------------------------------
(* C17 *)

C17_FailureStep ==
    \A t \in SeqThreads :
        (pc[t] = "Create_MkdirAll" /\ pc'[t] = "idle")
        => /\ resp'[t].Err = ErrMkdir
           /\ UNCHANGED <<volumes, file, dirs>>

C17_StaysUnknown ==
    \A t \in SeqThreads :
        /\ (Done(t, "Create") /\ resp[t].Err = ErrMkdir)
           => ~Registered(call[t].Name)
        /\ (Done(t, "Get") /\ life[call[t].Name] = "failed")
           => resp[t] = [Response EXCEPT !.Err = ErrNotFound]

\* C17: the step of Create in which MkdirAll fails returns the MkdirAll error
\* and leaves the map, the state file and the directories as they are; the
\* name is then not registered and a Get of it answers not-found.
C17_MkdirFailure ==
    []C17_StaysUnknown /\ [][C17_FailureStep]_vars

\* a Get of A, whose Create failed in MkdirAll, has answered not-found
C17_Witness ==
    /\ Done("t1", "Get")
    /\ call["t1"].Name = "A"
    /\ life["A"] = "failed"
    /\ file = MissingFile
    /\ dirs = {}

\* a Create of A has succeeded after an earlier one failed in MkdirAll
C17_WitnessRetry ==
    /\ Done("t1", "Create")
    /\ call["t1"].Name = "A"
    /\ life["A"] = "retried"
    /\ resp["t1"].Err = ""
    /\ Stored("A") = Requested("t1")

----------------------------------------------------------------------------
(* C18 *)

ReadOps == {"Get", "List", "Mount", "Path", "Unmount"}

\* C18: no step of Get, List, Mount, Path or Unmount changes the map, the
\* state file or the directories.
C18_ReadsChangeNothing ==
    [][\A t \in SeqThreads :
         (StepOf(t) /\ call'[t].op \in ReadOps)
            => UNCHANGED <<volumes, file, dirs>>]_vars

\* Mount of the unknown B has returned; B is still unknown and has no
\* directory
C18_Witness ==
    /\ Done("t1", "Mount")
    /\ call["t1"].Name = "B"
    /\ "B" \notin DOMAIN volumes.kv
    /\ "A" \in DOMAIN volumes.kv
    /\ baseDir \notin dirs

----------------------------------------------------------------------------
(* C19 *)

\* what List returns in the current state
ListNow == {volume(volumes, n) : n \in DOMAIN volumes.kv}

\* C19: a Get finds a volume exactly if List holds a volume of that name, and
\* then it is the same volume; List returns one volume per key of the map.
C19_LookupListAgree ==
    \A t \in SeqThreads :
        /\ Done(t, "List") => resp[t].Volumes = ListNow
        /\ Done(t, "Get") =>
             /\ resp[t].Volume # <<>> <=> \E v \in ListNow : v.Name = call[t].Name
             /\ resp[t].Volume # <<>> => resp[t].Volume[1] \in ListNow

----------------------------------------------------------------------------
(* C20 *)

C20_KeysHaveDirs ==
    \A n \in DOMAIN volumes.kv : Join(baseDir, volumes.kv[n]) \in dirs

----------------------------------------------------------------------------
(* C16 *)

\* the step ends the process and starts a new one
RestartStep ==
    /\ \E t \in ConcThreads : call[t].op # "none"
    /\ \A t \in ConcThreads : call'[t].op = "none"

\* C16: when the process is started again after calls of Create and Remove
\* whose saveState all wrote the file, while the daemon cannot be queried or
\* reports no volume, the new driver starts with the map the old one held.
C16_Durable ==
    [][(RestartStep /\ writes # "failed"
            /\ (~LiveOk \/ LiveSet = EmptyKV))
        => volumes' = volumes]_vars

\* the driver was started again while the daemon cannot be reached and holds
\* A, which the process before it created; the directory of a volume that
\* process created and removed is there as well
C16_Witness ==
    /\ JustConstructed
    /\ daemon.clientErr
    /\ volumes = MapPut(EmptyMap, "A", <<"p1">>)
    /\ file = JsonFile(Marshal(volumes))
    /\ dirs = {<<"mnt", "base", "p1">>, <<"mnt", "base", "p2">>}

====
